---- MODULE Spec2Model ----
(***************************************************************************)
(* The fixed-timestep loop of three-rapier-playground and the first-person *)
(* player it drives.  The repository holds the loop twice: as the          *)
(* functions of src/src/main.ts (animate, updateRapier, updateThree,       *)
(* updatePlayer) and as the class of src/src/playground.ts (updateLoop,    *)
(* physicsWorldUpdateLoop, sceneUpdateLoop).  `program` says which of the  *)
(* two entry points is running.                                            *)
(*                                                                         *)
(* Units.  Timestamps and frame deltas are whole milliseconds.  The        *)
(* grounded timer is kept in milliseconds (the code keeps seconds), and    *)
(* vertical movement in millionths (the code keeps -0.001, 0.25, -9.81),   *)
(* so that every value of the code is an integer here and the arithmetic   *)
(* is exact.  Heights are millionths as well.  The pitch playerEuler.x is  *)
(* counted in units of DEG2RAD / clientHeight and the yaw playerEuler.y in *)
(* units of DEG2RAD / clientWidth, so that one pointer event adds          *)
(* movement * mouseSensitivity units.                                      *)
(***************************************************************************)
EXTENDS Integers, Sequences, FiniteSets

\* ------------------------------------------------------------------ bounds
\* The host clock stops advancing at this timestamp (ms).
MaxTimeMs == 70

\* Gaps between two display refreshes (ms): none, less than a tick, exactly
\* three ticks.
FrameDeltas == {0, 10, 50}

\* Key codes the host delivers; KeyQ is a key the listeners do not handle.
KeyCodes == {"KeyW", "KeyS", "KeyA", "KeyD", "Space", "KeyQ"}

\* event.movementX / event.movementY of a pointermove event (px)
PointerMovements == {-60, -20, 0, 20, 60}

\* Pointer events stop turning the player once the yaw would leave this range.
MaxYaw == 20000

\* A level holds at most this many objects.
MaxObjects == 3

\* container.clientHeight and container.clientWidth (px)
clientHeight == 100

clientWidth == 200

\* ------------------------------------------------------- program constants
null == 0 - 1

PHYSICS_UPDATE_PER_SECOND == 60

\* GRAVITY_VECTOR.y = -9.81, in millionths
GRAVITY_Y == -9810000

\* GROUNDED_TIMER_DEFAULT_VALUE = 1 (s), in milliseconds
GROUNDED_TIMER_DEFAULT_VALUE == 1000

\* VERTICAL_MOVEMENT = -0.001, in millionths
VERTICAL_MOVEMENT == -1000

\* verticalMovement = 0.25 on a jump, in millionths
JUMP_MOVEMENT == 250000

\* params.mouseSensitivity
mouseSensitivity == 200

\* the pitch is clamped to -80 and 80 degrees
MAX_PITCH_DEGREES == 80

\* PLAYER_EVE_LEVEL = 1.8, in millionths
PLAYER_EVE_LEVEL == 1800000

PLAYER_SPEED == 1

\* PLAYER_COLLIDER_HEIGHT = 2, in millionths
PLAYER_COLLIDER_HEIGHT == 2000000

\* Listeners the two entry points register
MainListeners == {"resize", "visibilitychange", "click", "pointermove", "keydown", "keyup"}

PlaygroundListeners == {"resize", "visibilitychange"}

\* The keys of the four directional flags
DirectionKeys == {"KeyW", "KeyS", "KeyA", "KeyD"}

VARIABLES
    program,            \* "main" (src/src/main.ts) or "playground" (src/src/playground.ts)
    now,                \* host: timestamp of the latest display refresh
    hidden,             \* host: document.hidden
    pending,            \* host: requestAnimationFrame ids not yet run or cancelled, oldest first
    ready,              \* host: the ids the current display refresh still has to run
    animationId,
    startTimeMs,
    elapsedTimeMs,
    elapsedTickCounter,
    playerInput,
    groundedTimer,
    verticalMovement,
    computedGrounded,   \* characterController.computedGrounded(): result of the last movement computation
    playerEuler,        \* [x |-> pitch, y |-> yaw]
    pointerLock,        \* host: the container holds the pointer lock
    activeCamera,       \* "playerCamera" or "freeRoamCamera"
    playerCollider,     \* playerCollider.translation().y
    playerGroup,        \* playerGroup.position.y
    playerColliderRotation, \* playerCollider.rotation(), as the angles [x, y] of the rotation
    playerGroupQuaternion,  \* playerGroup.quaternion, likewise
    container,          \* host: the document has the element with id "container"
    setup,              \* "new" before construction, then "ok" or "failed"
    listeners,          \* the event listeners registered so far
    onResize,           \* the resize callbacks registered: the Set of playground.ts, the one nullable callback of part_000
    resizeLog,          \* what the latest resize event did (see ResizeLogInit)
    level,              \* Playground.loadLevel: the level's objects and what the load did
    frameLog,           \* what the latest frame callback did, in order
    hist,               \* history of the loop (see LoopHistInit)
    phist               \* history of the player (see PlayerHistInit)

vars == <<program, now, hidden, pending, ready, animationId, startTimeMs,
          elapsedTimeMs, elapsedTickCounter, playerInput, groundedTimer,
          verticalMovement, computedGrounded, playerEuler, pointerLock,
          activeCamera, playerCollider, playerGroup, playerColliderRotation,
          playerGroupQuaternion, container, setup,
          listeners, onResize, resizeLog, level, frameLog, hist, phist>>

hostVars == <<now, hidden, pending, ready>>
clockVars == <<startTimeMs, elapsedTimeMs, elapsedTickCounter>>
playerVars == <<playerInput, groundedTimer, verticalMovement, computedGrounded>>
lookVars == <<playerEuler, pointerLock, activeCamera>>
bodyVars == <<playerCollider, playerGroup, playerColliderRotation, playerGroupQuaternion>>
setupVars == <<container, setup, listeners>>
resizeVars == <<onResize, resizeLog>>

\* ----------------------------------------------------------------- helpers
Max(a, b) == IF a >= b THEN a ELSE b

Range(s) == {s[i] : i \in 1..Len(s)}

\* [from, from+1, ..., to-1] as a sequence
SeqFromTo(from, to) == [i \in 1..Max(to - from, 0) |-> from + i - 1]

Count(s, e) == Cardinality({i \in 1..Len(s) : s[i] = e})

\* Variant: Math.floor in place of Math.ceil
Math_ceil_floor(num, den) == num \div den

\* Math.ceil(num / den) for den > 0
Math_ceil(num, den) == IF num % den = 0 THEN num \div den ELSE (num \div den) + 1

\* requestAnimationFrame: the host hands out an id no pending request holds
requestAnimationFrame(p) == CHOOSE id \in 1..(Len(p) + 1) : id \notin Range(p)

\* cancelAnimationFrame(id): the request leaves the host's list
cancelAnimationFrame(p, id) == SelectSeq(p, LAMBDA x : x # id)

\* unit repeated n times
RepeatSeq(unit, n) == [i \in 1..(n * Len(unit)) |-> unit[((i - 1) % Len(unit)) + 1]]

\* ------------------------------------------------------------------- state
\* History of the loop, kept beside the program's state.  A running period
\* starts with the first frame callback after construction or after the
\* document became hidden, and ends when the document becomes hidden.
LoopHistInit ==
    [ periodStart    |-> null,   \* timestamp of the period's first frame callback
      lastTime       |-> null,   \* timestamp of the latest frame callback of the period
      processedTicks |-> <<>>,   \* loop variable `tick` of every physics tick of the period
      smallSteps     |-> TRUE,   \* every gap between two callbacks of the period is in (0, tick)
      prevElapsed    |-> 0,      \* elapsedTickCounter as the latest callback's loop read it
      tickCounter    |-> 0,      \* tickCounter as the latest callback computed it
      pauseGap       |-> FALSE,  \* host time passed while the document was last hidden
      resumed        |-> FALSE,  \* the period follows a pause
      ranWhileHidden |-> FALSE,  \* a frame callback ran while the document was hidden
      callbacks      |-> 0,      \* frame callbacks run in the current display refresh
      sceneDelta     |-> 0 ]     \* deltaTimeMs the latest frame callback handed to the scene update

\* History of the player.
PlayerHistInit ==
    [ updates            |-> FALSE,  \* updatePlayer has run
      updateDelta        |-> 0,      \* deltaTimeMs of the latest update
      updateGrounded     |-> FALSE,  \* computedGrounded() as the latest update read it
      timerRefreshed     |-> 0,      \* groundedTimer after the latest update's grounded check
      jumpConsumed       |-> FALSE,  \* the latest update consumed a jump
      movementY          |-> 0,      \* movementVector.y the latest update handed to the controller
      everJumped         |-> FALSE,
      jumpedAgain        |-> FALSE,  \* a jump was consumed after an earlier one
      groundedSinceJump  |-> FALSE,  \* an update read grounded since the last jump (or the start)
      jumpHadGround      |-> TRUE,   \* ... as it was when the last jump was consumed
      airRequest         |-> FALSE,  \* playerInput.jump was set by a press in mid-air after a jump
      jumpFromAirRequest |-> FALSE,  \* ... as it was when the last jump was consumed
      lastDown           |-> [k \in DirectionKeys |-> FALSE],
                                     \* the key's latest non-repeat event was a keydown
      repeatChanged      |-> FALSE,  \* a key event with the repeat flag changed playerInput
      moveLenSq          |-> 0 ]     \* squared length of the input direction the latest update read

\* What loadLevel has done to the level of the file `gltf`, which is found
\* in the assets or not and holds the objects gltf.scene.
LevelInit(gltf) ==
    [ gltf      |-> gltf,
      status    |-> "idle",     \* "idle", then "absent", "loaded" or "threw"
      colliders |-> {},         \* the objects (by position in gltf) that got a collider
      warned    |-> {},         \* the objects console.warn reported
      inScene   |-> FALSE ]     \* scene.add(level) ran

\* The callbacks a client may register for the resize event.
ResizeCallbacks == {"camera", "pane", "overlay", "debug"}

\* The latest resize event: the callbacks registered when it arrived and how
\* often the handler invoked each callback.
ResizeLogInit ==
    [ resized    |-> FALSE,
      registered |-> {},
      calls      |-> [callback \in ResizeCallbacks |-> 0] ]

\* The program's own state as its declarations leave it.
InitProgram ==
    /\ now = 0
    /\ hidden \in BOOLEAN
    /\ ready = <<>>
    /\ startTimeMs = null
    /\ elapsedTimeMs = null
    /\ elapsedTickCounter = IF program = "playground" THEN null ELSE 0
    /\ playerInput = [forward |-> 0, backward |-> 0, left |-> 0, right |-> 0, jump |-> 0]
    /\ groundedTimer = 0
    /\ verticalMovement = VERTICAL_MOVEMENT
    /\ computedGrounded = FALSE
    /\ playerEuler = [x |-> 0, y |-> 0]
    /\ pointerLock = FALSE
    /\ activeCamera = IF program = "main" THEN "playerCamera" ELSE "freeRoamCamera"
    /\ playerCollider = PLAYER_COLLIDER_HEIGHT \div 2
    /\ playerGroup = 0
    /\ playerColliderRotation = [x |-> 0, y |-> 0]
    /\ playerGroupQuaternion = [x |-> 0, y |-> 0]
    /\ onResize = {}
    /\ resizeLog = ResizeLogInit
    /\ frameLog = <<>>
    /\ hist = LoopHistInit
    /\ phist = PlayerHistInit

\* After a successful construction: the first frame is requested and the
\* listeners are registered.
Init ==
    /\ program \in {"main", "playground"}
    /\ InitProgram
    /\ pending = <<1>>
    /\ animationId = 1
    /\ container = TRUE
    /\ setup = "ok"
    /\ listeners = IF program = "main" THEN MainListeners ELSE PlaygroundListeners
    /\ level = LevelInit([found |-> TRUE, scene |-> <<>>])

\* -------------------------------------------------------------------- host
\* The display refreshes: every callback requested so far is due, with the
\* refresh's timestamp.  A hidden document gets no refresh.
displayRefresh(dt) ==
    /\ ~hidden
    /\ ready = <<>>
    /\ now + dt <= MaxTimeMs
    /\ now' = now + dt
    /\ ready' = pending
    /\ hist' = [hist EXCEPT !.callbacks = 0]
    /\ UNCHANGED <<program, hidden, pending, animationId, clockVars, playerVars, frameLog, phist>>
    /\ UNCHANGED <<lookVars, bodyVars, setupVars, resizeVars, level>>

\* Time passes while the document is hidden.
hiddenTimePasses(dt) ==
    /\ hidden
    /\ ready = <<>>
    /\ dt > 0
    /\ now + dt <= MaxTimeMs
    /\ now' = now + dt
    /\ hist' = [hist EXCEPT !.pauseGap = TRUE]
    /\ UNCHANGED <<program, hidden, pending, ready, animationId, clockVars, playerVars, frameLog, phist>>
    /\ UNCHANGED <<lookVars, bodyVars, setupVars, resizeVars, level>>

\* ------------------------------------------------------------ updatePlayer
\* Variant: grounded adds the grace period to the timer
groundedTimerAfterCheck_add(grounded, timer) ==
    IF grounded THEN timer + GROUNDED_TIMER_DEFAULT_VALUE ELSE timer

\* if (characterController.computedGrounded()) { groundedTimer = ...; verticalMovement = ... }
groundedTimerAfterCheck(grounded, timer) ==
    IF grounded THEN GROUNDED_TIMER_DEFAULT_VALUE ELSE timer

\* Variant: the resting vertical movement is 0 instead of VERTICAL_MOVEMENT
verticalMovementAfterCheck_zero(grounded, v) == IF grounded THEN 0 ELSE v

verticalMovementAfterCheck(grounded, v) ==
    IF grounded THEN VERTICAL_MOVEMENT ELSE v

\* Variant: a queued jump is taken whatever the timer
jumpTaken_anyTime(timer, jump) == jump > 0

\* if (groundedTimer > 0) { ...; if (playerInput.jump > 0) { ... } }
jumpTaken(timer, jump) == timer > 0 /\ jump > 0

\* Variant: a jump does not zero the timer
groundedTimerAfterJump_kept(timer, deltaTimeMs, jump) ==
    IF timer > 0 THEN Max(timer - deltaTimeMs, 0) ELSE timer

\* groundedTimer = Math.max(groundedTimer - (deltaTimeMs / 1000), 0), then 0 on a jump
groundedTimerAfterJump(timer, deltaTimeMs, jump) ==
    IF timer > 0
    THEN IF jump THEN 0 ELSE Max(timer - deltaTimeMs, 0)
    ELSE timer

\* Variant: the fall is clamped at the gravity constant itself
integrateVerticalMovement_rawClamp(v, deltaTimeMs) ==
    Max(v + ((GRAVITY_Y * deltaTimeMs) \div 10000), GRAVITY_Y)

\* verticalMovement = Math.max(v + g * (dt / 1000) * 0.1, g * (dt / 1000) * 2)
integrateVerticalMovement(v, deltaTimeMs) ==
    Max(v + ((GRAVITY_Y * deltaTimeMs) \div 10000), (GRAVITY_Y * deltaTimeMs * 2) \div 1000)

\* new THREE.Vector3(playerInput.left - playerInput.right, 0, playerInput.forward - playerInput.backward)
inputDirection(input) ==
    [x |-> input.left - input.right, z |-> input.forward - input.backward]

lengthSq(v) == (v.x * v.x) + (v.z * v.z)

\* The horizontal length of
\*   direction.normalize().multiplyScalar(PLAYER_SPEED).applyQuaternion(q).divideScalar(deltaTimeMs)
\* for an input direction of squared length lenSq, as the fraction num / den
\* of its square.  normalize() divides by the length, or by 1 when the length
\* is 0; the rotation keeps the length.  divideScalar(0) multiplies by
\* 1 / 0 = Infinity: a component that is not 0 becomes an infinity and a
\* component that is 0 becomes NaN (stated for yaw 0, where the rotation
\* leaves the components as they are), and a length with a NaN component is NaN.
horizontalLength(lenSq, deltaTimeMs) ==
    LET divisorSq == IF lenSq = 0 THEN 1 ELSE lenSq
    IN  IF deltaTimeMs = 0
        THEN [kind |-> IF lenSq = 2 THEN "Infinity" ELSE "NaN", num |-> 0, den |-> 1]
        ELSE [kind |-> "finite",
              num  |-> lenSq * PLAYER_SPEED * PLAYER_SPEED,
              den  |-> divisorSq * deltaTimeMs * deltaTimeMs]

\* One horizontal component of
\*   direction.normalize().multiplyScalar(PLAYER_SPEED).applyQuaternion(q).divideScalar(deltaTimeMs)
\* for the component c of a direction of squared length lenSq, at yaw 0: its
\* sign and the fraction num / den of its square.  divideScalar(s) is
\* multiplyScalar(1 / s), so a delta of 0 multiplies by Infinity: a component
\* that is 0 becomes NaN and any other becomes an infinity.
movementComponent(c, lenSq, deltaTimeMs) ==
    LET divisorSq == IF lenSq = 0 THEN 1 ELSE lenSq
    IN  IF deltaTimeMs = 0
        THEN [kind |-> IF c = 0 THEN "NaN" ELSE "Infinity", sign |-> c, num |-> 0, den |-> 1]
        ELSE [kind |-> "finite", sign |-> c,
              num  |-> c * c * PLAYER_SPEED * PLAYER_SPEED,
              den  |-> divisorSq * deltaTimeMs * deltaTimeMs]

\* The horizontal components of the movement vector an update computes.
movementVector(input, deltaTimeMs) ==
    LET direction == inputDirection(input)
    IN  [x |-> movementComponent(direction.x, lengthSq(direction), deltaTimeMs),
         z |-> movementComponent(direction.z, lengthSq(direction), deltaTimeMs)]

\* A height above the floor the collider can be at (millionths).
AirHeight == 1500000

\* characterController.computeColliderMovement and computedMovement(): the
\* physics library decides where the collider may go.  Its outcomes here:
\* the collider rests on a floor at height 0 and is grounded, or it is in
\* the air and is not.
ControllerOutcomes ==
    { [grounded |-> TRUE, y |-> PLAYER_COLLIDER_HEIGHT \div 2],
      [grounded |-> FALSE, y |-> AirHeight] }

\* Variant: computedGrounded() is read after this update's computeColliderMovement
computedGroundedRead_afterCompute(stored, outcome) == outcome.grounded

\* characterController.computedGrounded() as updatePlayer reads it, before its
\* own computeColliderMovement: the result the controller stored last
computedGroundedRead(stored, outcome) == stored

\* Variant: the rotation keeps the pitch
yawOnlyRotation_withPitch(euler) == euler

\* new THREE.Quaternion().setFromEuler(new THREE.Euler(0, playerEuler.y, 0)),
\* written as the angles of the rotation
yawOnlyRotation(euler) == [x |-> 0, y |-> euler.y]

updatePlayer(deltaTimeMs) ==
    \* computeColliderMovement: the physics library decides the corrected
    \* movement and the next grounded result
    \E outcome \in ControllerOutcomes :
    LET nextQuaternion == yawOnlyRotation(playerEuler)
        grounded == computedGroundedRead(computedGrounded, outcome)
        timer1 == groundedTimerAfterCheck(grounded, groundedTimer)
        v1 == verticalMovementAfterCheck(grounded, verticalMovement)
        jump == jumpTaken(timer1, playerInput.jump)
        v2 == IF jump THEN JUMP_MOVEMENT ELSE v1
        sinceJump == phist.groundedSinceJump \/ grounded
        currentPosition == playerCollider
        computedMovementVector == outcome.y - currentPosition
        nextPosition == currentPosition + computedMovementVector
    IN  \* playerCollider.setRotation(nextQuaternion); playerGroup.quaternion.copy(nextQuaternion)
        /\ playerColliderRotation' = nextQuaternion
        /\ playerGroupQuaternion' = nextQuaternion
        /\ groundedTimer' = groundedTimerAfterJump(timer1, deltaTimeMs, jump)
        /\ playerInput' = IF jump THEN [playerInput EXCEPT !.jump = 0] ELSE playerInput
        \* movementVector.setY(verticalMovement), then the integration
        /\ verticalMovement' = integrateVerticalMovement(v2, deltaTimeMs)
        /\ computedGrounded' = outcome.grounded
        \* playerCollider.setTranslation(nextPosition)
        /\ playerCollider' = nextPosition
        \* playerGroup.position.copy(nextPosition)
        /\ playerGroup' = nextPosition
        /\ phist' = [phist EXCEPT
                        !.updates = TRUE,
                        !.updateDelta = deltaTimeMs,
                        !.updateGrounded = grounded,
                        !.timerRefreshed = timer1,
                        !.jumpConsumed = jump,
                        !.movementY = v2,
                        !.everJumped = @ \/ jump,
                        !.jumpedAgain = @ \/ (jump /\ phist.everJumped),
                        !.groundedSinceJump = IF jump THEN FALSE ELSE sinceJump,
                        !.jumpHadGround = IF jump THEN sinceJump ELSE @,
                        !.airRequest = IF jump THEN FALSE ELSE @,
                        !.jumpFromAirRequest = IF jump THEN phist.airRequest ELSE @,
                        !.moveLenSq = lengthSq(inputDirection(playerInput))]

\* ---------------------------------------------------------------- the loop
\* Variant: tick <= tickCounter
tickLoop_inclusive(from, to) == SeqFromTo(from, to + 1)

\* for (let tick = elapsedTickCounter; tick < tickCounter; tick++): the values of tick
tickLoop(from, to) == SeqFromTo(from, to)

\* Variant: the operands of the subtraction swapped
tickCounterAt_swapped(timeMs, start) ==
    Math_ceil((start - timeMs) * PHYSICS_UPDATE_PER_SECOND, 1000)

\* Variant: the tick count rounded down
tickCounterAt_floor(timeMs, start) ==
    Math_ceil_floor((timeMs - start) * PHYSICS_UPDATE_PER_SECOND, 1000)

\* Math.ceil((timeMs - startTimeMs) / (1 / PHYSICS_UPDATE_PER_SECOND * 1000))
tickCounterAt(timeMs, start) ==
    Math_ceil((timeMs - start) * PHYSICS_UPDATE_PER_SECOND, 1000)

\* Variant: updateThree inside the tick loop
animateLog_renderPerTick(nTicks) ==
    RepeatSeq(<<"step", "orbitControls", "updatePlayer", "render">>, nTicks)

\* main.ts: updateRapier() per tick, then updateThree(deltaTimeMs)
animateLog(nTicks) ==
    RepeatSeq(<<"step">>, nTicks) \o <<"orbitControls", "updatePlayer", "render">>

\* src/unnamed/part_000: updateRapier() steps the world and then calls
\* playground.onPhysicsUpdate; updateThree calls playground.onUpdate
Part000_animateLog(nTicks) ==
    RepeatSeq(<<"step", "onPhysicsUpdate">>, nTicks) \o <<"orbitControls", "onUpdate", "render">>

\* playground.ts: physicsWorldUpdateLoop() per tick, then sceneUpdateLoop(deltaTimeMs)
updateLoopLog(nTicks) ==
    RepeatSeq(<<"onPhysicsUpdate", "step">>, nTicks) \o <<"orbitControls", "onUpdate", "render">>

\* What a frame callback at timeMs that ran the ticks `ticks` adds to the history.
LoopHistAfter(timeMs, from, tickCounter, ticks) ==
    LET first == hist.periodStart = null
        gap == IF first THEN 0 ELSE timeMs - hist.lastTime
    IN  [hist EXCEPT
            !.periodStart = IF first THEN timeMs ELSE @,
            !.lastTime = timeMs,
            !.processedTicks = @ \o ticks,
            !.smallSteps = IF first THEN TRUE
                           ELSE @ /\ gap > 0 /\ gap * PHYSICS_UPDATE_PER_SECOND < 1000,
            !.prevElapsed = from,
            !.tickCounter = tickCounter,
            !.ranWhileHidden = @ \/ hidden,
            !.callbacks = @ + 1]

\* Variant: the callback does not request the next frame.
hostRuns_noRequest(id) ==
    /\ animationId' = animationId
    /\ pending' = cancelAnimationFrame(pending, id)
    /\ ready' = Tail(ready)

\* The host runs the oldest due callback; the callback requests the next frame.
hostRuns(id) ==
    LET rest == cancelAnimationFrame(pending, id)
        next == requestAnimationFrame(rest)
    IN  /\ animationId' = next
        /\ pending' = Append(rest, next)
        /\ ready' = Tail(ready)

animate ==
    /\ program = "main"
    /\ ready # <<>>
    /\ LET timeMs == now
           start == IF startTimeMs = null THEN timeMs ELSE startTimeMs
           tickCounter == tickCounterAt(timeMs, start)
           ticks == tickLoop(elapsedTickCounter, tickCounter)
           deltaTimeMs == IF elapsedTimeMs # null THEN timeMs - elapsedTimeMs ELSE 0
       IN  /\ startTimeMs' = start
           /\ updatePlayer(deltaTimeMs)
           /\ frameLog' = animateLog(Len(ticks))
           /\ elapsedTickCounter' = tickCounter
           /\ elapsedTimeMs' = timeMs
           /\ hostRuns(Head(ready))
           /\ hist' = [LoopHistAfter(timeMs, elapsedTickCounter, tickCounter, ticks)
                        EXCEPT !.sceneDelta = deltaTimeMs]
    /\ UNCHANGED <<program, now, hidden, lookVars, setupVars, resizeVars, level>>

\* src/unnamed/part_000: animate(timeMs), the loop of main.ts with the
\* callbacks of `playground` in place of the player
Part000_animate ==
    /\ program = "part_000"
    /\ ready # <<>>
    /\ LET timeMs == now
           start == IF startTimeMs = null THEN timeMs ELSE startTimeMs
           tickCounter == tickCounterAt(timeMs, start)
           ticks == tickLoop(elapsedTickCounter, tickCounter)
           deltaTimeMs == IF elapsedTimeMs # null THEN timeMs - elapsedTimeMs ELSE 0
       IN  /\ startTimeMs' = start
           /\ frameLog' = Part000_animateLog(Len(ticks))
           /\ elapsedTickCounter' = tickCounter
           /\ elapsedTimeMs' = timeMs
           /\ hostRuns(Head(ready))
           /\ hist' = [LoopHistAfter(timeMs, elapsedTickCounter, tickCounter, ticks)
                        EXCEPT !.sceneDelta = deltaTimeMs]
    /\ UNCHANGED <<program, now, hidden, playerVars, phist>>
    /\ UNCHANGED <<lookVars, bodyVars, setupVars, resizeVars, level>>

updateLoop ==
    /\ program = "playground"
    /\ ready # <<>>
    /\ LET timeMs == now
           start == IF startTimeMs = null THEN timeMs ELSE startTimeMs
           elapsed == IF elapsedTickCounter = null THEN 0 ELSE elapsedTickCounter
           tickCounter == tickCounterAt(timeMs, start)
           ticks == tickLoop(elapsed, tickCounter)
           deltaTimeMs == timeMs - (IF elapsedTimeMs = null THEN 0 ELSE elapsedTimeMs)
       IN  /\ startTimeMs' = start
           /\ frameLog' = updateLoopLog(Len(ticks))
           /\ elapsedTickCounter' = tickCounter
           /\ elapsedTimeMs' = timeMs
           /\ hostRuns(Head(ready))
           /\ hist' = [LoopHistAfter(timeMs, elapsed, tickCounter, ticks)
                        EXCEPT !.sceneDelta = deltaTimeMs]
    /\ UNCHANGED <<program, now, hidden, playerVars, phist>>
    /\ UNCHANGED <<lookVars, bodyVars, setupVars, resizeVars, level>>

\* ------------------------------------------------------------- visibility
\* Variant: startTimeMs survives the pause
clearAnimationAndTimings_keepStart ==
    /\ animationId' = null
    /\ startTimeMs' = startTimeMs
    /\ elapsedTimeMs' = null
    /\ elapsedTickCounter' = 0

clearAnimationAndTimings ==
    /\ animationId' = null
    /\ startTimeMs' = null
    /\ elapsedTimeMs' = null
    /\ elapsedTickCounter' = 0

\* The history of a visibility event: a running period ends when the document hides.
VisibilityHist(nowHidden) ==
    IF nowHidden
    THEN [hist EXCEPT !.periodStart = null, !.lastTime = null, !.processedTicks = <<>>,
                      !.smallSteps = TRUE, !.pauseGap = FALSE, !.resumed = TRUE]
    ELSE hist

\* main.ts
onDocumentVisibilityChange ==
    /\ program = "main"
    /\ "visibilitychange" \in listeners
    /\ ready = <<>>
    /\ hidden' = ~hidden
    /\ IF hidden' /\ animationId # null
       THEN /\ pending' = cancelAnimationFrame(pending, animationId)
            /\ clearAnimationAndTimings
       ELSE /\ animationId' = requestAnimationFrame(pending)
            /\ pending' = Append(pending, animationId')
            /\ UNCHANGED clockVars
    /\ hist' = VisibilityHist(hidden')
    /\ UNCHANGED <<program, now, ready, playerVars, frameLog, phist>>
    /\ UNCHANGED <<lookVars, bodyVars, setupVars, resizeVars, level>>

\* playground.ts
Playground_onDocumentVisibilityChange ==
    /\ program = "playground"
    /\ "visibilitychange" \in listeners
    /\ ready = <<>>
    /\ hidden' = ~hidden
    /\ IF hidden' /\ animationId # null
       THEN /\ pending' = cancelAnimationFrame(pending, animationId)
            /\ animationId' = null
            /\ startTimeMs' = null
            /\ elapsedTimeMs' = null
            /\ elapsedTickCounter' = null
       ELSE /\ animationId' = requestAnimationFrame(pending)
            /\ pending' = Append(pending, animationId')
            /\ UNCHANGED clockVars
    /\ hist' = VisibilityHist(hidden')
    /\ UNCHANGED <<program, now, ready, playerVars, frameLog, phist>>
    /\ UNCHANGED <<lookVars, bodyVars, setupVars, resizeVars, level>>

\* ------------------------------------------------------------------- keys
\* In mid-air after a jump: the timer is 0, the controller's latest result is
\* not grounded and no update has read grounded since the jump.
MidAir ==
    /\ phist.everJumped
    /\ groundedTimer = 0
    /\ ~computedGrounded
    /\ ~phist.groundedSinceJump

\* Variant: the keydown listener without `if (event.repeat) return`
keydownInput_repeats(input, code, repeat) ==
    CASE code = "KeyW" -> [input EXCEPT !.forward = 1]
      [] code = "KeyS" -> [input EXCEPT !.backward = 1]
      [] code = "KeyA" -> [input EXCEPT !.left = 1]
      [] code = "KeyD" -> [input EXCEPT !.right = 1]
      [] code = "Space" -> [input EXCEPT !.jump = 1]
      [] OTHER -> input

\* playerInput after the keydown listener
keydownInput(input, code, repeat) ==
    IF repeat THEN input
    ELSE CASE code = "KeyW" -> [input EXCEPT !.forward = 1]
           [] code = "KeyS" -> [input EXCEPT !.backward = 1]
           [] code = "KeyA" -> [input EXCEPT !.left = 1]
           [] code = "KeyD" -> [input EXCEPT !.right = 1]
           [] code = "Space" -> [input EXCEPT !.jump = 1]
           [] OTHER -> input

\* playerInput after the keyup listener (it has no case for Space)
keyupInput(input, code, repeat) ==
    IF repeat THEN input
    ELSE CASE code = "KeyW" -> [input EXCEPT !.forward = 0]
           [] code = "KeyS" -> [input EXCEPT !.backward = 0]
           [] code = "KeyA" -> [input EXCEPT !.left = 0]
           [] code = "KeyD" -> [input EXCEPT !.right = 0]
           [] OTHER -> input

\* The history of a key event that leaves playerInput as `after`.
KeyHist(h, code, repeat, down, after) ==
    IF repeat
    THEN [h EXCEPT !.repeatChanged = @ \/ (after # playerInput)]
    ELSE IF code \in DirectionKeys
         THEN [h EXCEPT !.lastDown[code] = down]
         ELSE h

keydown(code, repeat) ==
    /\ program = "main"
    /\ "keydown" \in listeners
    /\ ready = <<>>
    /\ playerInput' = keydownInput(playerInput, code, repeat)
    /\ phist' = KeyHist(IF ~repeat /\ code = "Space"
                        THEN [phist EXCEPT !.airRequest = MidAir /\ (playerInput.jump = 0 \/ @)]
                        ELSE phist,
                        code, repeat, TRUE, playerInput')
    /\ UNCHANGED <<program, hostVars, animationId, clockVars, groundedTimer,
                   verticalMovement, computedGrounded, frameLog, hist>>
    /\ UNCHANGED <<lookVars, bodyVars, setupVars, resizeVars, level>>

keyup(code, repeat) ==
    /\ program = "main"
    /\ "keyup" \in listeners
    /\ ready = <<>>
    /\ playerInput' = keyupInput(playerInput, code, repeat)
    /\ phist' = KeyHist(phist, code, repeat, FALSE, playerInput')
    /\ UNCHANGED <<program, hostVars, animationId, clockVars, groundedTimer,
                   verticalMovement, computedGrounded, frameLog, hist>>
    /\ UNCHANGED <<lookVars, bodyVars, setupVars, resizeVars, level>>

\* ---------------------------------------------------------------- pointer
\* container 'click' listener: if (activeCamera !== playerCamera) return; container.requestPointerLock()
click ==
    /\ program = "main"
    /\ "click" \in listeners
    /\ ready = <<>>
    /\ pointerLock' = IF activeCamera # "playerCamera" THEN pointerLock ELSE TRUE
    /\ UNCHANGED <<program, hostVars, animationId, clockVars, playerVars, playerEuler,
                   activeCamera, bodyVars, setupVars, resizeVars, level, frameLog, hist, phist>>

\* The host: the user leaves the pointer lock (Escape).
pointerLockExit ==
    /\ pointerLock
    /\ ready = <<>>
    /\ pointerLock' = FALSE
    /\ UNCHANGED <<program, hostVars, animationId, clockVars, playerVars, playerEuler,
                   activeCamera, bodyVars, setupVars, resizeVars, level, frameLog, hist, phist>>

clamp(value, min, max) == IF value < min THEN min ELSE IF value > max THEN max ELSE value

\* Variant: the pitch is not clamped
pitchAfterMove_unclamped(pitch, movementY) == pitch + (movementY * mouseSensitivity)

\* playerEuler.x += movementY / clientHeight * sensitivity * DEG2RAD, then the clamp
pitchAfterMove(pitch, movementY) ==
    clamp(pitch + (movementY * mouseSensitivity),
          (0 - MAX_PITCH_DEGREES) * clientHeight, MAX_PITCH_DEGREES * clientHeight)

\* playerEuler.y -= movementX / clientWidth * sensitivity * DEG2RAD
yawAfterMove(yaw, movementX) == yaw - (movementX * mouseSensitivity)

\* container 'pointermove' listener
pointermove(movementX, movementY) ==
    /\ program = "main"
    /\ "pointermove" \in listeners
    /\ ready = <<>>
    /\ playerEuler' = [x |-> pitchAfterMove(playerEuler.x, movementY),
                       y |-> yawAfterMove(playerEuler.y, movementX)]
    /\ playerEuler'.y <= MaxYaw
    /\ playerEuler'.y >= 0 - MaxYaw
    /\ UNCHANGED <<program, hostVars, animationId, clockVars, playerVars, pointerLock,
                   activeCamera, bodyVars, setupVars, resizeVars, level, frameLog, hist, phist>>

\* ------------------------------------------------------------ construction
\* Variant: getContainer() is the constructor's last statement
Playground_constructor_containerLast ==
    /\ program = "playground"
    /\ setup = "new"
    /\ animationId' = requestAnimationFrame(pending)
    /\ pending' = Append(pending, animationId')
    /\ listeners' = PlaygroundListeners
    /\ setup' = IF container THEN "ok" ELSE "failed"
    /\ UNCHANGED <<program, now, hidden, ready, clockVars, playerVars, lookVars, bodyVars,
                   container, resizeVars, level, frameLog, hist, phist>>

\* new Playground(assets): this.container = this.getContainer() comes first
\* and throws when the document has no element with id "container"; the
\* frame request and the two listeners are the constructor's last statements.
Playground_constructor ==
    /\ program = "playground"
    /\ setup = "new"
    /\ IF container
       THEN /\ animationId' = requestAnimationFrame(pending)
            /\ pending' = Append(pending, animationId')
            /\ listeners' = PlaygroundListeners
            /\ setup' = "ok"
       ELSE /\ setup' = "failed"
            /\ UNCHANGED <<animationId, pending, listeners>>
    /\ UNCHANGED <<program, now, hidden, ready, clockVars, playerVars, lookVars, bodyVars,
                   container, resizeVars, level, frameLog, hist, phist>>

\* The host: the document's visibility changes and no listener hears it.
visibilityUnheard ==
    /\ "visibilitychange" \notin listeners
    /\ ready = <<>>
    /\ hidden' = ~hidden
    /\ UNCHANGED <<program, now, pending, ready, animationId, clockVars, playerVars,
                   lookVars, bodyVars, setupVars, resizeVars, level, frameLog, hist, phist>>

\* ------------------------------------------------------------------ resize
\* Everything but the resize callbacks and the resize log.
nonResizeVars == <<program, hostVars, animationId, clockVars, playerVars, lookVars, bodyVars,
                   setupVars, level, frameLog, hist, phist>>

\* playground.ts: a client's playground.onResize.add(callback)
Playground_onResize_add(callback) ==
    /\ program = "playground"
    /\ setup = "ok"
    /\ onResize' = onResize \cup {callback}
    /\ UNCHANGED <<resizeLog, nonResizeVars>>

\* playground.ts: a client's playground.onResize.delete(callback)
Playground_onResize_delete(callback) ==
    /\ program = "playground"
    /\ setup = "ok"
    /\ onResize' = onResize \ {callback}
    /\ UNCHANGED <<resizeLog, nonResizeVars>>

\* this.onResize.forEach((callback) => callback.bind(this)): bind makes a
\* new function for every registered callback and calls none of them.
Playground_forEachBind(callbacks) == [callback \in ResizeCallbacks |-> 0]

\* playground.ts: onWindowResize()
Playground_onWindowResize ==
    /\ program = "playground"
    /\ "resize" \in listeners
    /\ resizeLog' = [resized |-> TRUE, registered |-> onResize,
                     calls |-> Playground_forEachBind(onResize)]
    /\ UNCHANGED <<onResize, nonResizeVars>>

\* src/unnamed/part_000: playground.onResize = callback, or null
Part000_onResize_set(callbacks) ==
    /\ program = "part_000"
    /\ setup = "ok"
    /\ Cardinality(callbacks) <= 1
    /\ onResize' = callbacks
    /\ UNCHANGED <<resizeLog, nonResizeVars>>

\* src/unnamed/part_000: onWindowResize(): if (playground.onResize) playground.onResize()
Part000_onWindowResize ==
    /\ program = "part_000"
    /\ "resize" \in listeners
    /\ resizeLog' = [resized |-> TRUE, registered |-> onResize,
                     calls |-> [callback \in ResizeCallbacks |->
                                   IF callback \in onResize THEN 1 ELSE 0]]
    /\ UNCHANGED <<onResize, nonResizeVars>>

\* --------------------------------------------------------------- loadLevel
\* The objects level.traverse visits: an object that is no mesh, or a mesh
\* whose geometry has or lacks the position attribute and the index.
LevelObjects ==
    {[mesh |-> FALSE, position |-> FALSE, index |-> FALSE]}
    \cup {[mesh |-> TRUE, position |-> p, index |-> i] : p, i \in BOOLEAN}

\* assets.gltf.get(name): no file, or a file with up to MaxObjects objects
Gltfs ==
    {[found |-> FALSE, scene |-> <<>>]}
    \cup {[found |-> TRUE, scene |-> objects] :
            objects \in UNION {[1..n -> LevelObjects] : n \in 0..MaxObjects}}

\* The traverse callback on the object `it`, the i-th of the level.
\*   it.geometry.attributes['position'].array  throws a TypeError when the
\*     geometry has no position attribute;
\*   it.geometry.index?.array is undefined when the geometry has no index,
\*     and then the callback warns and returns.
visit(it, i, acc) ==
    IF ~it.mesh THEN acc
    ELSE IF ~it.position THEN [acc EXCEPT !.status = "threw"]
    ELSE IF ~it.index THEN [acc EXCEPT !.warned = @ \cup {i}]
    ELSE [acc EXCEPT !.colliders = @ \cup {i}]

\* level.traverse(callback): the objects in order, until the callback throws
RECURSIVE traverse(_, _, _)
traverse(objects, i, acc) ==
    IF i > Len(objects) \/ acc.status = "threw" THEN acc
    ELSE traverse(objects, i + 1, visit(objects[i], i, acc))

\* Playground.loadLevel(name)
loadLevel ==
    /\ program = "playground"
    /\ setup = "ok"
    /\ level.status = "idle"
    /\ level' =
         IF ~level.gltf.found THEN [level EXCEPT !.status = "absent"]
         ELSE LET traversed == traverse(level.gltf.scene, 1, level)
              IN  IF traversed.status = "threw" THEN traversed
                  ELSE [traversed EXCEPT !.status = "loaded", !.inScene = TRUE]
    /\ UNCHANGED <<program, hostVars, animationId, clockVars, playerVars, lookVars,
                   bodyVars, setupVars, resizeVars, frameLog, hist, phist>>

\* ---------------------------------------------------------- specification
Next ==
    \/ \E dt \in FrameDeltas : displayRefresh(dt)
    \/ \E dt \in FrameDeltas : hiddenTimePasses(dt)
    \/ animate
    \/ updateLoop
    \/ onDocumentVisibilityChange
    \/ Playground_onDocumentVisibilityChange
    \/ \E code \in KeyCodes, repeat \in BOOLEAN : keydown(code, repeat)
    \/ \E code \in KeyCodes, repeat \in BOOLEAN : keyup(code, repeat)
    \/ click
    \/ pointerLockExit
    \/ \E movementX, movementY \in PointerMovements : pointermove(movementX, movementY)
    \/ loadLevel
    \/ Part000_animate
    \/ \E callback \in ResizeCallbacks : Playground_onResize_add(callback)
    \/ \E callback \in ResizeCallbacks : Playground_onResize_delete(callback)
    \/ Playground_onWindowResize
    \/ \E callbacks \in SUBSET ResizeCallbacks : Part000_onResize_set(callbacks)
    \/ Part000_onWindowResize

Spec == Init /\ [][Next]_vars

\* The loop alone: display refreshes and visibility events, no key events.
NextLoop ==
    \/ \E dt \in FrameDeltas : displayRefresh(dt)
    \/ \E dt \in FrameDeltas : hiddenTimePasses(dt)
    \/ animate
    \/ updateLoop
    \/ onDocumentVisibilityChange
    \/ Playground_onDocumentVisibilityChange

SpecLoop == Init /\ [][NextLoop]_vars

\* The loop under the host's scheduling: a visible document keeps getting
\* display refreshes, and a callback that is due is run.
SpecLoopFair ==
    /\ Init
    /\ [][NextLoop]_vars
    /\ WF_vars(\E dt \in FrameDeltas : displayRefresh(dt))
    /\ WF_vars(animate)
    /\ WF_vars(updateLoop)

\* The player of main.ts in a visible document: display refreshes and the
\* events of the jump key, of one directional key and of a key without a case.
InitPlayer == Init /\ program = "main" /\ ~hidden

JumpKeyCodes == {"Space", "KeyW", "KeyQ"}

NextPlayer ==
    \/ \E dt \in FrameDeltas : displayRefresh(dt)
    \/ animate
    \/ \E code \in JumpKeyCodes, repeat \in BOOLEAN : keydown(code, repeat)
    \/ \E code \in JumpKeyCodes, repeat \in BOOLEAN : keyup(code, repeat)

SpecPlayer == InitPlayer /\ [][NextPlayer]_vars

\* The same player with the events of the four directional keys and of a
\* key without a case.
MoveKeyCodes == DirectionKeys \cup {"KeyQ"}

NextMove ==
    \/ \E dt \in FrameDeltas : displayRefresh(dt)
    \/ animate
    \/ \E code \in MoveKeyCodes, repeat \in BOOLEAN : keydown(code, repeat)
    \/ \E code \in MoveKeyCodes, repeat \in BOOLEAN : keyup(code, repeat)

SpecMove == InitPlayer /\ [][NextMove]_vars

\* The look of the player of main.ts: pointer events beside a frame of three
\* ticks, one key and the visibility events.
LookFrameDeltas == {50}

NextLook ==
    \/ click
    \/ pointerLockExit
    \/ \E movementX, movementY \in PointerMovements : pointermove(movementX, movementY)
    \/ \E dt \in LookFrameDeltas : displayRefresh(dt)
    \/ animate
    \/ \E repeat \in BOOLEAN : keydown("KeyW", repeat)
    \/ \E repeat \in BOOLEAN : keyup("KeyW", repeat)
    \/ onDocumentVisibilityChange

SpecLook == InitPlayer /\ [][NextLook]_vars

\* The construction of a Playground, with or without the container, and the
\* loop and the host's events after it.
InitSetup ==
    /\ program = "playground"
    /\ InitProgram
    /\ pending = <<>>
    /\ animationId = null
    /\ container \in BOOLEAN
    /\ setup = "new"
    /\ listeners = {}
    /\ level = LevelInit([found |-> TRUE, scene |-> <<>>])

NextSetup ==
    \/ Playground_constructor
    \/ \E dt \in FrameDeltas : displayRefresh(dt)
    \/ \E dt \in FrameDeltas : hiddenTimePasses(dt)
    \/ updateLoop
    \/ Playground_onDocumentVisibilityChange
    \/ visibilityUnheard

SpecSetup == InitSetup /\ [][NextSetup]_vars

\* Loading a level: one call of loadLevel on every file of up to MaxObjects objects.
InitLoad ==
    /\ program = "playground"
    /\ InitProgram
    /\ ~hidden
    /\ pending = <<1>>
    /\ animationId = 1
    /\ container = TRUE
    /\ setup = "ok"
    /\ listeners = PlaygroundListeners
    /\ level \in {LevelInit(gltf) : gltf \in Gltfs}

NextLoad == loadLevel

SpecLoad == InitLoad /\ [][NextLoad]_vars

\* Resize events and the registration of resize callbacks, in the two
\* versions that have such callbacks.
InitResize ==
    /\ program \in {"playground", "part_000"}
    /\ InitProgram
    /\ ~hidden
    /\ pending = <<1>>
    /\ animationId = 1
    /\ container = TRUE
    /\ setup = "ok"
    /\ listeners = PlaygroundListeners
    /\ level = LevelInit([found |-> TRUE, scene |-> <<>>])

NextResize ==
    \/ \E callback \in ResizeCallbacks : Playground_onResize_add(callback)
    \/ \E callback \in ResizeCallbacks : Playground_onResize_delete(callback)
    \/ Playground_onWindowResize
    \/ \E callbacks \in SUBSET ResizeCallbacks : Part000_onResize_set(callbacks)
    \/ Part000_onWindowResize

SpecResize == InitResize /\ [][NextResize]_vars

\* One tick loop per version of the program, in a visible document.
InitTick ==
    /\ program \in {"main", "playground", "part_000"}
    /\ InitProgram
    /\ ~hidden
    /\ pending = <<1>>
    /\ animationId = 1
    /\ container = TRUE
    /\ setup = "ok"
    /\ listeners = IF program = "main" THEN MainListeners ELSE PlaygroundListeners
    /\ level = LevelInit([found |-> TRUE, scene |-> <<>>])

NextTick ==
    \/ \E dt \in FrameDeltas : displayRefresh(dt)
    \/ animate
    \/ updateLoop
    \/ Part000_animate

SpecTick == InitTick /\ [][NextTick]_vars

\* ------------------------------------------------------------------ claims
\* n = ceil(num / den), stated by its bounds
IsCeilOf(n, num, den) == (n - 1) * den < num /\ num <= n * den

ElapsedTicks == IF elapsedTickCounter = null THEN 0 ELSE elapsedTickCounter

FrameRan == hist.lastTime # null

\* C1: after every frame callback, startTime is the timestamp of the running
\* period's first callback, elapsedTicks is ceil((now - startTime) / tick
\* duration), and the callback ran exactly target - elapsedTicks physics ticks.
C1_TickCountIsCeil ==
    FrameRan =>
        /\ startTimeMs = hist.periodStart
        /\ elapsedTimeMs = hist.lastTime
        /\ IsCeilOf(ElapsedTicks, (hist.lastTime - startTimeMs) * PHYSICS_UPDATE_PER_SECOND, 1000)
        /\ Count(frameLog, "step") = ElapsedTicks - hist.prevElapsed
        /\ hist.prevElapsed >= 0

C1_Witness ==
    /\ FrameRan
    /\ hist.resumed
    /\ hist.prevElapsed = 1
    /\ Count(frameLog, "step") = 3

\* C2: within a running period the tick indices processed are 0, 1, ...,
\* elapsedTicks-1 in increasing order, each once, and every tick due at the
\* latest callback's timestamp has been run, however long the gap was.
C2_TicksInOrderOnce ==
    /\ Len(hist.processedTicks) = ElapsedTicks
    /\ \A i \in 1..Len(hist.processedTicks) : hist.processedTicks[i] = i - 1
    /\ FrameRan =>
         ElapsedTicks * 1000 >= (hist.lastTime - hist.periodStart) * PHYSICS_UPDATE_PER_SECOND

C2_Witness ==
    /\ FrameRan
    /\ Len(hist.processedTicks) = 4
    /\ Count(frameLog, "step") = 3

\* C3: over a running period whose frame timestamps strictly increase by less
\* than a tick, the ticks run differ from floor(totalElapsed / tick duration)
\* by at most 1.
C3_SmallStepsWithinOne ==
    (FrameRan /\ hist.smallSteps) =>
        LET totalElapsed == hist.lastTime - hist.periodStart
            expected == (totalElapsed * PHYSICS_UPDATE_PER_SECOND) \div 1000
            run == Len(hist.processedTicks)
        IN  run - expected \in {-1, 0, 1}

C3_Witness ==
    /\ FrameRan
    /\ hist.smallSteps
    /\ hist.lastTime - hist.periodStart = 50
    /\ Len(hist.processedTicks) = 3

\* C4: after a resume the ticks run depend only on the offset from the first
\* frame after the resume: that frame runs no tick and the ticks run since
\* are ceil(offset / tick duration), whatever time passed while paused.
C4_PauseGapIndependent ==
    (FrameRan /\ hist.resumed) =>
        /\ IsCeilOf(Len(hist.processedTicks),
                    (hist.lastTime - hist.periodStart) * PHYSICS_UPDATE_PER_SECOND, 1000)
        /\ (hist.lastTime = hist.periodStart => Len(hist.processedTicks) = 0)

C4_Witness ==
    /\ FrameRan
    /\ hist.resumed
    /\ hist.pauseGap
    /\ hist.lastTime > hist.periodStart
    /\ Len(hist.processedTicks) >= 1

\* C5: a visibility loss while a callback is scheduled cancels it and unsets
\* startTime, elapsedTicks and the last render time; while the document stays
\* hidden no frame callback runs (no tick, no render).
C5_PauseCancelsAndResets ==
    [][ /\ (~hidden /\ hidden' /\ animationId # null) =>
             /\ animationId' = null
             /\ animationId \notin Range(pending')
             /\ startTimeMs' = null
             /\ elapsedTimeMs' = null
             /\ elapsedTickCounter' \in {0, null}
        /\ (hidden /\ hidden') => UNCHANGED <<frameLog, clockVars, animationId, pending>>
        /\ ~hist'.ranWhileHidden ]_vars

C5_Witness ==
    /\ hidden
    /\ hist.resumed
    /\ hist.pauseGap
    /\ frameLog # <<>>
    /\ animationId = null
    /\ startTimeMs = null

\* C6: a frame callback runs all its due ticks first and then exactly one
\* render pass: the render is the last thing it does and the only render.
C6_TicksThenOneRender ==
    frameLog # <<>> =>
        /\ frameLog[Len(frameLog)] = "render"
        /\ Count(frameLog, "render") = 1
        /\ Count(frameLog, "step") = hist.tickCounter - hist.prevElapsed
        /\ \A i \in 1..Len(frameLog) :
             frameLog[i] = "step" => \A j \in 1..i : frameLog[j] \in {"step", "onPhysicsUpdate"}

C6_Witness ==
    /\ Count(frameLog, "step") = 3
    /\ Len(frameLog) >= 6

\* C7: the player update runs once per physics tick, always with the fixed
\* delta of 1/60 s: in a frame callback as many player updates as ticks.
C7_PlayerUpdatePerTick ==
    (program = "main" /\ frameLog # <<>>) =>
        /\ Count(frameLog, "updatePlayer") = Count(frameLog, "step")
        /\ phist.updateDelta * PHYSICS_UPDATE_PER_SECOND = 1000

\* C8: no jump impulse is set again before an update has read grounded since
\* the previous impulse.
C8_NoMidAirDoubleJump ==
    /\ phist.jumpHadGround
    /\ groundedTimer > 0 => phist.groundedSinceJump

C8_Witness ==
    /\ phist.jumpedAgain
    /\ phist.jumpConsumed

\* C9: a jump request made in mid-air, before landing again, has no effect on
\* later jumps: no jump impulse rests on such a request.
C9_AirRequestHasNoEffect == ~phist.jumpFromAirRequest

\* C10: an update that reads grounded and consumes no jump refreshes the
\* grounded timer to the grace period and hands the controller a vertical
\* component of exactly the negative epsilon.
C10_GroundedProbeIsEpsilon ==
    (phist.updates /\ phist.updateGrounded /\ ~phist.jumpConsumed) =>
        /\ phist.timerRefreshed = GROUNDED_TIMER_DEFAULT_VALUE
        /\ groundedTimer = Max(GROUNDED_TIMER_DEFAULT_VALUE - phist.updateDelta, 0)
        /\ phist.movementY = VERTICAL_MOVEMENT
        /\ phist.movementY < 0

C10_Witness ==
    /\ phist.updates
    /\ phist.updateGrounded
    /\ ~phist.jumpConsumed
    /\ phist.updateDelta > 0
    /\ computedGrounded
    /\ playerInput = [forward |-> 0, backward |-> 0, left |-> 0, right |-> 0, jump |-> 0]

C12_PitchClampedYawFree ==
    /\ [](/\ playerEuler.x >= (0 - MAX_PITCH_DEGREES) * clientHeight
          /\ playerEuler.x <= MAX_PITCH_DEGREES * clientHeight)
    /\ [][ /\ (playerEuler'.y # playerEuler.y) =>
                \E movementX \in PointerMovements :
                    playerEuler'.y = playerEuler.y - (movementX * mouseSensitivity)
           /\ (\/ hist' # hist
               \/ phist' # phist
               \/ playerInput' # playerInput
               \/ hidden' # hidden
               \/ now' # now
               \/ pointerLock' # pointerLock) => playerEuler' = playerEuler ]_vars

\* the pitch at its limit, the yaw beyond 80 degrees, after an update
C12_Witness ==
    /\ playerEuler.x = MAX_PITCH_DEGREES * clientHeight
    /\ playerEuler.y > MAX_PITCH_DEGREES * clientWidth
    /\ phist.updates
    /\ playerInput.forward = 1

\* C13: a pointer event that arrives while the container does not hold the
\* pointer lock leaves pitch and yaw unchanged.
C13_MoveNeedsPointerLock ==
    [][ ~pointerLock => playerEuler' = playerEuler ]_vars

\* C14: each directional flag is 1 exactly when the latest non-repeat event of
\* its key was a keydown (0 before any), and no key event with the repeat flag
\* changed playerInput.
C14_FlagsFollowLastEdge ==
    /\ playerInput.forward = (IF phist.lastDown["KeyW"] THEN 1 ELSE 0)
    /\ playerInput.backward = (IF phist.lastDown["KeyS"] THEN 1 ELSE 0)
    /\ playerInput.left = (IF phist.lastDown["KeyA"] THEN 1 ELSE 0)
    /\ playerInput.right = (IF phist.lastDown["KeyD"] THEN 1 ELSE 0)
    /\ ~phist.repeatChanged

C14_Witness ==
    /\ phist.updates
    /\ playerInput.forward = 1
    /\ playerInput.right = 1
    /\ playerInput.backward = 0
    /\ phist.moveLenSq = 1

\* Two lengths are equal: NaN equals nothing, itself included.
LengthsEqual(a, b) ==
    /\ a.kind = b.kind
    /\ a.kind # "NaN"
    /\ a.num * b.den = b.num * a.den

\* C15: the horizontal length of the movement an update requests with two
\* perpendicular axes active equals the length it requests with one axis
\* active, and two opposite keys held together add nothing on their axis.
C15_DiagonalNotFaster ==
    /\ [](phist.updates /\ phist.moveLenSq = 2 =>
            LengthsEqual(horizontalLength(phist.moveLenSq, phist.updateDelta),
                         horizontalLength(1, phist.updateDelta)))
    /\ [][ hist'.callbacks = hist.callbacks + 1 =>
             /\ (playerInput.left = 1 /\ playerInput.right = 1) =>
                    phist'.moveLenSq = (playerInput.forward - playerInput.backward)
                                       * (playerInput.forward - playerInput.backward)
             /\ (playerInput.forward = 1 /\ playerInput.backward = 1) =>
                    phist'.moveLenSq = (playerInput.left - playerInput.right)
                                       * (playerInput.left - playerInput.right) ]_vars

\* C16: after every update the group's origin is at the character's feet, the
\* bottom of the collider, and the camera is at eye level above the feet.
C16_GroupOriginAtFeet ==
    phist.updates =>
        LET feet == playerCollider - (PLAYER_COLLIDER_HEIGHT \div 2)
        IN  /\ playerGroup = feet
            /\ playerGroup + PLAYER_EVE_LEVEL = feet + PLAYER_EVE_LEVEL

\* C17: a load that found its file never aborts: it ends with the level in the
\* scene, a collider for exactly the meshes that have position and index, and
\* a warning for exactly the meshes that lack one of them.
C17_BadMeshSkipped ==
    (level.status # "idle" /\ level.gltf.found) =>
        LET objects == level.gltf.scene
            meshes == {i \in 1..Len(objects) : objects[i].mesh}
            complete == {i \in meshes : objects[i].position /\ objects[i].index}
        IN  /\ level.status = "loaded"
            /\ level.inScene
            /\ level.colliders = complete
            /\ level.warned = meshes \ complete

\* C18: when the document has no container, the construction fails and stays
\* failed: no frame request is pending, no listener is registered and no
\* frame callback ever runs.
C18_MissingContainerAbortsSetup ==
    (setup # "new" /\ ~container) =>
        /\ setup = "failed"
        /\ pending = <<>>
        /\ ready = <<>>
        /\ animationId = null
        /\ listeners = {}
        /\ frameLog = <<>>
        /\ hist.lastTime = null
        /\ hist.callbacks = 0
        /\ elapsedTickCounter = null

\* a failed construction, later, after time passed and the document hid
C18_Witness ==
    /\ setup = "failed"
    /\ now > 0
    /\ hidden

\* C20: from one step to the next elapsedTicks never decreases unless the
\* step hides the document, and no frame callback computes a tick count below
\* the elapsedTicks it started from.
C20_ElapsedTicksMonotone ==
    /\ [](hist.tickCounter >= hist.prevElapsed)
    /\ [][ \/ ElapsedTicks' >= ElapsedTicks
           \/ (~hidden /\ hidden' /\ ElapsedTicks' = 0) ]_vars

\* elapsedTicks grew over two callbacks of a period that follows a pause
C20_Witness ==
    /\ hist.resumed
    /\ ~hidden
    /\ hist.prevElapsed >= 1
    /\ ElapsedTicks > hist.prevElapsed
    /\ program = "playground"

\* Callbacks of a physics tick: the player update or a registered callback.
IsTickCallback(entry) == entry \in {"onPhysicsUpdate", "updatePlayer"}

\* C21: in every frame callback each step of the physics world comes right
\* after the physics-update callback of its tick, and each such callback is
\* followed by its step: per tick the callback runs first, then one step.
C21_CallbackBeforeStep ==
    \A i \in 1..Len(frameLog) :
        /\ frameLog[i] = "step" => (i > 1 /\ IsTickCallback(frameLog[i - 1]))
        /\ IsTickCallback(frameLog[i]) => (i < Len(frameLog) /\ frameLog[i + 1] = "step")

\* The step is a frame callback of main.ts: it runs one player update.
PlayerUpdateStep == program = "main" /\ hist'.callbacks = hist.callbacks + 1

\* groundedTimer after the grounded refresh of an update that starts in this state
RefreshedTimer == IF computedGrounded THEN GROUNDED_TIMER_DEFAULT_VALUE ELSE groundedTimer

\* C22: an update consumes the queued jump exactly when the jump flag is set
\* and groundedTimer is above 0 after the grounded refresh; consuming hands
\* the jump impulse to the controller, zeroes the timer and clears the flag;
\* an update that consumes nothing leaves playerInput alone, and no update
\* sets the flag, so one press gives at most one impulse.
C22_JumpConsumedIffTimer ==
    [][ /\ PlayerUpdateStep =>
             LET consumed == RefreshedTimer > 0 /\ playerInput.jump = 1
             IN  /\ phist'.jumpConsumed = consumed
                 /\ consumed => /\ phist'.movementY = JUMP_MOVEMENT
                                /\ groundedTimer' = 0
                                /\ playerInput' = [playerInput EXCEPT !.jump = 0]
                 /\ ~consumed => playerInput' = playerInput
        /\ playerInput'.jump > playerInput.jump => hist' = hist ]_vars

\* a jump consumed in the grace period: the update did not read grounded
C22_Witness ==
    /\ phist.jumpConsumed
    /\ ~phist.updateGrounded
    /\ phist.timerRefreshed > 0
    /\ groundedTimer = 0
    /\ playerInput.jump = 0

\* C23: groundedTimer stays between 0 and the grace period; an update that
\* reads grounded refreshes it to the grace period before the countdown, an
\* update with the timer above 0 and no jump takes the update's delta off it,
\* floored at 0, and an update with the timer at 0 and not grounded leaves 0.
C23_TimerWithinGrace ==
    /\ [](groundedTimer >= 0 /\ groundedTimer <= GROUNDED_TIMER_DEFAULT_VALUE)
    /\ [][ PlayerUpdateStep =>
             /\ phist'.timerRefreshed = RefreshedTimer
             /\ (RefreshedTimer > 0 /\ ~phist'.jumpConsumed) =>
                    groundedTimer' = Max(RefreshedTimer - phist'.updateDelta, 0)
             /\ (groundedTimer = 0 /\ ~computedGrounded) => groundedTimer' = 0 ]_vars

\* the timer part of the way down, in an update that did not read grounded
C23_Witness ==
    /\ phist.updates
    /\ ~phist.updateGrounded
    /\ ~phist.jumpConsumed
    /\ groundedTimer > 0
    /\ groundedTimer < GROUNDED_TIMER_DEFAULT_VALUE - 50

\* C24: no update hands the controller a vertical component of exactly 0.
C24_ProbeNeverZero == phist.updates => phist.movementY # 0

\* C25: after every update the group's position is the collider's translation
\* and the group's rotation is the collider's rotation, a rotation about the
\* vertical axis by the yaw the update read; only a player update writes any
\* of the four.
C25_GroupFollowsCollider ==
    /\ [](phist.updates => /\ playerGroup = playerCollider
                           /\ playerGroupQuaternion = playerColliderRotation
                           /\ playerGroupQuaternion.x = 0)
    /\ [][ /\ PlayerUpdateStep => playerGroupQuaternion'.y = playerEuler.y
           /\ ~PlayerUpdateStep => UNCHANGED bodyVars ]_vars

\* the collider in the air and turned, the yaw turned on since the update
C25_Witness ==
    /\ phist.updates
    /\ playerCollider = AirHeight
    /\ playerColliderRotation.y # 0
    /\ playerEuler.y # playerColliderRotation.y
    /\ playerEuler.x # 0

\* C26: an update reads the grounded result the controller stored before the
\* update, the result of the update before it, and bases the timer refresh
\* and the reset of the vertical movement on it; the result of its own
\* movement computation is what the next update reads.
C26_GroundedReadBeforeCompute ==
    [][ PlayerUpdateStep =>
          /\ phist'.updateGrounded = computedGrounded
          /\ phist'.timerRefreshed = RefreshedTimer
          /\ (computedGrounded /\ ~phist'.jumpConsumed) => phist'.movementY = VERTICAL_MOVEMENT
          /\ (~computedGrounded /\ ~phist'.jumpConsumed) => phist'.movementY = verticalMovement ]_vars

\* an update that read grounded and whose own computation gave not grounded
C26_Witness ==
    /\ phist.updates
    /\ phist.updateGrounded
    /\ ~computedGrounded
    /\ phist.timerRefreshed = GROUNDED_TIMER_DEFAULT_VALUE
    /\ phist.movementY = VERTICAL_MOVEMENT
    /\ phist.updateDelta > 0

\* C27: at most one frame callback is pending, animationId is its id, and no
\* display refresh runs the loop body twice.
C27_OneCallbackPending ==
    /\ Len(pending) <= 1
    /\ pending # <<>> => pending = <<animationId>>
    /\ hist.callbacks <= 1

\* C28: whenever the latest visibility event reported the document hidden, the
\* loop is paused: animationId is unset and no frame callback is pending.
C28_HiddenMeansPaused ==
    (hidden /\ hist.resumed) =>
        /\ animationId = null
        /\ pending = <<>>

\* A visibility event that restores the document while no request is held.
ResumeStep == hidden /\ ~hidden' /\ animationId = null

\* A frame callback runs.
FrameStep == hist'.callbacks = hist.callbacks + 1

\* C29: a restore event received while paused requests one frame callback;
\* every frame callback requests exactly one next callback; and while the
\* document stays visible a display refresh eventually makes a callback due,
\* and a due callback eventually runs, so frames keep running until the
\* document is hidden again.
C29_ResumeKeepsFramesRunning ==
    /\ [][ResumeStep => /\ animationId' # null
                        /\ pending' = Append(pending, animationId')]_vars
    /\ [][FrameStep => /\ Len(pending') = Len(pending)
                       /\ animationId' # null
                       /\ pending'[Len(pending')] = animationId'
                       /\ animationId' \notin Range(ready')]_vars
    /\ (~hidden /\ ready = <<>>) ~> (hidden \/ ready # <<>>)
    /\ (ready # <<>>) ~> (ready = <<>> /\ hist.callbacks >= 1 /\ pending # <<>>)

C29_Witness ==
    /\ hist.resumed
    /\ ~hidden
    /\ FrameRan
    /\ ready = <<>>
    /\ hist.callbacks = 1
    /\ pending = <<animationId>>

\* C30: the delta a frame callback hands to the scene update is 0 for the
\* first callback of a running period and otherwise the time since the
\* period's previous callback.
C30_DeltaWithinPeriod ==
    [][FrameStep =>
        hist'.sceneDelta = IF hist.lastTime = null THEN 0 ELSE now - hist.lastTime]_vars

\* C31: the horizontal components of the movement vector every update
\* computes are finite numbers, and they are exactly 0 when no directional
\* key is held.
C31_MovementFinite ==
    [][PlayerUpdateStep =>
        LET movement == movementVector(playerInput, phist'.updateDelta)
        IN  /\ movement.x.kind = "finite"
            /\ movement.z.kind = "finite"
            /\ lengthSq(inputDirection(playerInput)) = 0 =>
                   /\ movement.x.num = 0
                   /\ movement.z.num = 0]_vars

\* C32: a resize event invokes every callback registered when it arrives
\* exactly once, and no other callback.
C32_EachResizeCallbackOnce ==
    resizeLog.resized =>
        \A callback \in ResizeCallbacks :
            resizeLog.calls[callback] = IF callback \in resizeLog.registered THEN 1 ELSE 0

====
